---- MODULE Spec2Model ----
(***************************************************************************)
(* Model of the livestock marketplace backend (api/views.py,               *)
(* api/serializers.py, api/models.py): listings (Animal), orders with      *)
(* their line items, the order-creation transaction, the seller's listing  *)
(* edit, the order status update and the M-Pesa payment callback, run by   *)
(* concurrently scheduled request workers over one relational database     *)
(* (READ COMMITTED: a transaction's writes are invisible until it commits, *)
(* SELECT ... FOR UPDATE and UPDATE wait for the row lock).                *)
(***************************************************************************)
EXTENDS Integers, Sequences, FiniteSets, TLC

\* ------------------------------------------------------------------ bounds
MaxQty == 2
MaxOrders == 2

AnimalIds == {1, 2}
OrderIds == 1..MaxOrders
Farmers == {"f1"}
Buyers == {"b1"}
Users == Farmers \cup Buyers
Workers == {"w1", "w2"}
NoWorker == "none"
CartLens == {0, 1, 2}

\* PATCH of a listing that does not carry the quantity field
Keep == -1

\* the payment description: longest kept text, the marker "..." and the
\* separator ", ", in characters
DescLimit == 90
EllipsisLen == 3
SeparatorLen == 2

\* lengths of listing names (Animal.name holds up to 100 characters)
NameLens == {5, 100}

\* ------------------------------------------------------------ domain types
\* Order.OrderStatus
OrderStatus == {"PENDING", "CONFIRMED", "REJECTED", "PAID", "DELIVERED"}

\* a row of Animal (only the fields the transactions read or write)
NoAnimal == [exists |-> FALSE, farmer |-> "none", quantity |-> 0, is_sold |-> FALSE]

\* one entry of the request's "items" list
Lines == [animal : AnimalIds, quantity : 0..MaxQty]

Carts == UNION {[1..n -> Lines] : n \in CartLens}

\* the carts of at most one line
ShortCarts == {cart \in Carts : Len(cart) <= 1}

\* the carts of exactly one line, of at least one unit
UnitCarts == {cart \in Carts : Len(cart) = 1 /\ cart[1].quantity >= 1}

NoWrites == [a \in AnimalIds |-> NoAnimal]

IdleReq ==
    [kind |-> "idle", pc |-> "idle", user |-> "none", cart |-> <<>>,
     snap |-> NoWrites, idx |-> 0, writes |-> NoWrites, order |-> 0,
     outcome |-> "none", animal |-> 0, newQty |-> 0, seen |-> "none", desc |-> 0]

VARIABLES
    animals,      \* committed Animal rows, by id
    nextAnimalId, \* the Animal id sequence
    initQty,      \* history: the quantity each listing's seller last gave it
                  \* (with no edit: the quantity it was created with)
    orders,       \* committed Order rows, each [buyer, status, items] with its
                  \* OrderItem rows in insertion order; an order's id is
                  \* its position: ids are opaque, so the gaps that rolled-back
                  \* inserts leave in the id sequence are not modelled
    lock,         \* holder of each Animal row lock
    orderLock,    \* holder of each Order row lock
    req,          \* per worker: the request it is serving, or its response
    keepResponses, \* scheduling mode: FALSE, a response is handed back as soon
                  \* as it is ready and the worker serves on; TRUE, every worker
                  \* serves one request and holds its response
    pushed        \* history: the orders for which the payment provider was
                  \* asked to push a payment

vars == <<animals, nextAnimalId, initQty, orders, lock, orderLock, req, keepResponses,
          pushed>>

\* ------------------------------------------------------------------ helpers
RECURSIVE SumLines(_, _)
\* sum of the quantities of the lines of `items` that reference listing a
SumLines(items, a) ==
    IF items = <<>> THEN 0
    ELSE (IF Head(items).animal = a THEN Head(items).quantity ELSE 0)
         + SumLines(Tail(items), a)

RECURSIVE CommittedIn(_, _)
\* units of listing a in the lines of the orders `os`
CommittedIn(os, a) ==
    IF os = <<>> THEN 0
    ELSE SumLines(Head(os).items, a) + CommittedIn(Tail(os), a)

\* units of listing a in all committed order lines
CommittedQty(a) == CommittedIn(orders, a)

\* a worker can take a request when it serves none
Free(w) == req[w].pc = "idle"

\* the order row with id o, if committed
Exists(o) == o \in DOMAIN orders

\* a response is on its way out
Responding == \E w \in Workers : req[w].pc = "done"

\* a ready response is handed back before any request is served further
Ready == keepResponses \/ ~Responding

\* a step of a request other than a payment initiation is scheduled
Scheduled ==
    /\ Ready
    /\ UNCHANGED <<keepResponses, pushed>>

\* requests go to the first free worker
Dispatch(w) ==
    /\ Free(w)
    /\ w = "w2" => ~Free("w1")

\* what worker w leaves behind as its response (idx: the line it stopped at)
Response(w, outcome) ==
    [req[w] EXCEPT !.pc = "done", !.outcome = outcome, !.writes = NoWrites]

\* COMMIT / ROLLBACK release every row lock the transaction holds
Released(locks, w) == [k \in DOMAIN locks |-> IF locks[k] = w THEN NoWorker ELSE locks[k]]

\* COMMIT leaves the table with the transaction's own rows only
AppliedAlone(writes) ==
    [a \in AnimalIds |-> IF writes[a].exists THEN writes[a] ELSE NoAnimal]

\* COMMIT makes the transaction's Animal writes visible
Applied(writes) ==
    [a \in AnimalIds |-> IF writes[a].exists THEN writes[a] ELSE animals[a]]

\* ------------------------------------------------------------------ role gates
\* any authenticated user may write listings
IsAnyUser(u) == u \in Users

\* IsFarmerOrReadOnly.has_permission on a write: user_type == 'FARMER'
IsFarmer(u) == u \in Farmers

\* the creation goes ahead for every authenticated caller
IsAuthenticated(u) == u \in Users

\* perform_create's role check: user_type == User.Types.BUYER
IsBuyer(u) == u \in Buyers

\* ------------------------------------------------------------ listing create
\* AnimalViewSet.perform_create: POST /animals/ by a farmer; is_sold is read-only
\* and takes the model default, quantity is any non-negative integer
AnimalCreate(u, q) ==
    /\ Scheduled
    /\ IsFarmer(u)
    /\ nextAnimalId \in AnimalIds
    /\ animals' = [animals EXCEPT ![nextAnimalId] =
                      [exists |-> TRUE, farmer |-> u, quantity |-> q, is_sold |-> FALSE]]
    /\ initQty' = [initQty EXCEPT ![nextAnimalId] = q]
    /\ nextAnimalId' = nextAnimalId + 1
    /\ UNCHANGED <<orders, lock, orderLock, req>>

\* ------------------------------------------------------------ order creation
\* the cart's listings as read, unlocked, by the serializer's validation
\* (PrimaryKeyRelatedField: one Animal instance per line)
Snapshot(cart) ==
    [a \in AnimalIds |->
        IF \E i \in DOMAIN cart : cart[i].animal = a THEN animals[a] ELSE NoAnimal]

\* creations in flight
Pending == Cardinality({w \in Workers : req[w].kind = "create" /\ req[w].pc # "done"})

\* the loop without the unique constraint on (order, animal)
ItemsAcceptedTwice(cart, snap) ==
    \A i \in DOMAIN cart :
        /\ ~(snap[cart[i].animal].is_sold \/ snap[cart[i].animal].quantity = 0)
        /\ ~(cart[i].quantity > snap[cart[i].animal].quantity)

\* OrderWriteSerializer.create's loop: each line is checked against the listing
\* as validation read it, then inserted (unique_together: order, animal)
ItemsAccepted(cart, snap) ==
    \A i \in DOMAIN cart :
        /\ ~(snap[cart[i].animal].is_sold \/ snap[cart[i].animal].quantity = 0)
        /\ ~(cart[i].quantity > snap[cart[i].animal].quantity)
        /\ \A j \in 1..(i - 1) : cart[j].animal # cart[i].animal

\* what the serializer's loop raises at the first line it refuses: its own
\* message for a listing out of stock or short of the request, the database's
\* IntegrityError for a second line of the same listing
RECURSIVE ItemsError(_, _, _)
ItemsError(cart, snap, i) ==
    IF i > Len(cart) THEN "none"
    ELSE IF snap[cart[i].animal].is_sold \/ snap[cart[i].animal].quantity = 0
    THEN "out_of_stock"
    ELSE IF cart[i].quantity > snap[cart[i].animal].quantity
    THEN "insufficient_stock"
    ELSE IF \E j \in 1..(i - 1) : cart[j].animal = cart[i].animal
    THEN "integrity_error"
    ELSE ItemsError(cart, snap, i + 1)

\* perform_create's except Exception: whatever was raised inside the atomic
\* block, the caller gets the one message "Could not create order due to a
\* stock issue or server error."
Surfaced(error) == "failed"

\* an Order row inserted as already confirmed
NewOrderConfirmed(u, cart) == [buyer |-> u, status |-> "CONFIRMED", items |-> cart]

\* an Order row as Order.objects.create(buyer=...) inserts it
NewOrder(u, cart) == [buyer |-> u, status |-> "PENDING", items |-> cart]

\* POST /orders/ up to the first row lock: is_valid (every referenced listing
\* must exist), perform_create's role check, then, inside transaction.atomic(),
\* serializer.save(buyer=...). None of it writes anything another request can
\* see, so it is one step; an empty cart has no row to lock and commits at once
BeginCreate(w, u, cart) ==
    /\ Scheduled
    /\ Dispatch(w)
    /\ Len(orders) + Pending < MaxOrders
    /\ LET r == [IdleReq EXCEPT !.kind = "create", !.user = u, !.cart = cart,
                                !.snap = Snapshot(cart)]
       IN IF \E i \in DOMAIN cart : ~animals[cart[i].animal].exists
          THEN /\ req' = [req EXCEPT ![w] =
                    [r EXCEPT !.pc = "done", !.outcome = "invalid", !.snap = NoWrites]]
               /\ UNCHANGED orders
          ELSE IF ~IsBuyer(u)
          THEN /\ req' = [req EXCEPT ![w] =
                    [r EXCEPT !.pc = "done", !.outcome = "denied", !.snap = NoWrites]]
               /\ UNCHANGED orders
          ELSE IF ~ItemsAccepted(cart, r.snap)
          THEN /\ req' = [req EXCEPT ![w] =
                    [r EXCEPT !.pc = "done",
                              !.outcome = Surfaced(ItemsError(cart, r.snap, 1))]]
               /\ UNCHANGED orders
          ELSE IF cart = <<>>
          THEN /\ req' = [req EXCEPT ![w] =
                    [r EXCEPT !.pc = "done", !.outcome = "created", !.order = Len(orders) + 1]]
               /\ orders' = Append(orders, NewOrder(u, cart))
          ELSE /\ req' = [req EXCEPT ![w] = [r EXCEPT !.pc = "lock", !.idx = 1]]
               /\ UNCHANGED orders
    /\ UNCHANGED <<animals, nextAnimalId, initQty, lock, orderLock>>

\* the OrderItem rows worker w's open transaction has inserted: serializer.save()
\* inserts every line of the cart before perform_create's loop locks any row
InsertedItems(w) ==
    IF req[w].kind = "create" /\ req[w].pc = "lock" THEN req[w].cart ELSE <<>>

\* the row as validation read it, before the lock
StaleRow(w, a) == req[w].snap[a]

\* Animal.objects.select_for_update().get(id=...): the row as the lock holder
\* sees it, its own uncommitted write included
LockedRow(w, a) == IF req[w].writes[a].exists THEN req[w].writes[a] ELSE animals[a]

\* the decrement without the sold flag
DecrementedOnly(row, n) == [row EXCEPT !.quantity = row.quantity - n]

\* quantity -= n; if quantity == 0: is_sold = True
Decremented(row, n) ==
    [row EXCEPT !.quantity = row.quantity - n,
                !.is_sold = IF row.quantity - n = 0 THEN TRUE ELSE row.is_sold]

\* the stock check with <= for <
InStockStrict(row, n) == ~(row.quantity <= n)

\* no stock check under the lock
InStockUnchecked(row, n) == TRUE

\* the stock check of perform_create, under the row lock
InStock(row, n) == ~(row.quantity < n)

\* the exception is swallowed inside the atomic block: the writes made so far
\* are committed
RolledBackPartly(w, outcome) ==
    /\ lock' = Released(lock, w)
    /\ orderLock' = Released(orderLock, w)
    /\ req' = [req EXCEPT ![w] = Response(w, outcome)]
    /\ animals' = Applied(req[w].writes)
    /\ UNCHANGED <<nextAnimalId, initQty, orders>>

\* the exception leaves transaction.atomic(): ROLLBACK, locks released
RolledBack(w, outcome) ==
    /\ lock' = Released(lock, w)
    /\ orderLock' = Released(orderLock, w)
    /\ req' = [req EXCEPT ![w] = Response(w, outcome)]
    /\ UNCHANGED <<animals, nextAnimalId, initQty, orders>>

\* one iteration of perform_create's loop; after the last one the atomic block
\* ends and the transaction commits
LockItem(w) ==
    /\ Scheduled
    /\ req[w].kind = "create" /\ req[w].pc = "lock"
    /\ LET line == req[w].cart[req[w].idx]
           a == line.animal
           row == LockedRow(w, a)
           writes == [req[w].writes EXCEPT ![a] = Decremented(row, line.quantity)]
       IN /\ lock[a] \in {NoWorker, w}
          /\ IF ~InStock(row, line.quantity)
             THEN RolledBack(w, Surfaced("insufficient_stock"))
             ELSE IF req[w].idx < Len(req[w].cart)
             THEN /\ lock' = [lock EXCEPT ![a] = w]
                  /\ req' = [req EXCEPT ![w] =
                        [req[w] EXCEPT !.writes = writes, !.idx = req[w].idx + 1]]
                  /\ UNCHANGED <<animals, nextAnimalId, initQty, orders, orderLock>>
             ELSE /\ animals' = Applied(writes)
                  /\ orders' = Append(orders, NewOrder(req[w].user, req[w].cart))
                  /\ lock' = Released(lock, w)
                  /\ req' = [req EXCEPT ![w] =
                        [Response(w, "created") EXCEPT !.order = Len(orders) + 1]]
                  /\ UNCHANGED <<nextAnimalId, initQty, orderLock>>

\* ---------------------------------------------------------- payment callback
\* the stock test of the callback's loop
CanDeduct(row, n) == row.quantity >= n

\* the row the callback's loop writes for one item (none when the test fails)
Deducted(row, n) == IF CanDeduct(row, n) THEN Decremented(row, n) ELSE NoAnimal

\* the callback also pays an order that is still PENDING
PayableEarly(status) == status \in {"CONFIRMED", "PENDING"}

\* the branch of the callback that processes the payment
Payable(status) == status = "CONFIRMED"

\* the Order row read with no lock
OrderRowUnlocked(o) == TRUE

\* Order.objects.select_for_update().get(id=...) waits while another
\* transaction holds the row
OrderRowFree(o) == orderLock[o] = NoWorker

\* POST /mpesa-callback/ up to the first Animal row lock: lock and read the
\* Order; anything but CONFIRMED is ignored; CONFIRMED becomes PAID
CallbackBegin(w, o) ==
    /\ Scheduled
    /\ Dispatch(w)
    /\ LET r == [IdleReq EXCEPT !.kind = "callback", !.order = o]
       IN IF ~Exists(o)
          THEN /\ req' = [req EXCEPT ![w] = [r EXCEPT !.pc = "done", !.outcome = "not_found"]]
               /\ UNCHANGED <<orders, orderLock>>
          ELSE /\ OrderRowFree(o)
               /\ IF ~Payable(orders[o].status)
                  THEN /\ req' = [req EXCEPT ![w] =
                            [r EXCEPT !.pc = "done", !.outcome = "ignored",
                                      !.seen = orders[o].status]]
                       /\ UNCHANGED <<orders, orderLock>>
                  ELSE IF orders[o].items = <<>>
                  THEN /\ req' = [req EXCEPT ![w] =
                            [r EXCEPT !.pc = "done", !.outcome = "paid",
                                      !.seen = orders[o].status]]
                       /\ orders' = [orders EXCEPT ![o].status = "PAID"]
                       /\ UNCHANGED orderLock
                  ELSE /\ req' = [req EXCEPT ![w] =
                            [r EXCEPT !.pc = "cb_items", !.idx = 1,
                                      !.seen = orders[o].status,
                                      !.cart = orders[o].items]]
                       /\ orderLock' = [orderLock EXCEPT ![o] = w]
                       /\ UNCHANGED orders
    /\ UNCHANGED <<animals, nextAnimalId, initQty, lock>>

\* one iteration of the callback's loop over order.items; after the last one
\* the atomic block ends and the transaction commits
CallbackItem(w) ==
    /\ Scheduled
    /\ req[w].kind = "callback" /\ req[w].pc = "cb_items"
    /\ LET line == req[w].cart[req[w].idx]
           a == line.animal
           new == Deducted(LockedRow(w, a), line.quantity)
           writes == IF new.exists THEN [req[w].writes EXCEPT ![a] = new]
                     ELSE req[w].writes
       IN /\ lock[a] \in {NoWorker, w}
          /\ IF req[w].idx < Len(req[w].cart)
             THEN /\ lock' = [lock EXCEPT ![a] = w]
                  /\ req' = [req EXCEPT ![w] =
                        [req[w] EXCEPT !.writes = writes, !.idx = req[w].idx + 1]]
                  /\ UNCHANGED <<animals, nextAnimalId, initQty, orders, orderLock>>
             ELSE /\ animals' = Applied(writes)
                  /\ orders' = [orders EXCEPT ![req[w].order].status = "PAID"]
                  /\ lock' = Released(lock, w)
                  /\ orderLock' = Released(orderLock, w)
                  /\ req' = [req EXCEPT ![w] = Response(w, "paid")]
                  /\ UNCHANGED <<nextAnimalId, initQty>>

\* ------------------------------------------------------------ lock waits
\* worker w is blocked on the row lock of listing a
Waiting(w, a) ==
    /\ req[w].pc \in {"lock", "cb_items"}
    /\ a = req[w].cart[req[w].idx].animal
    /\ lock[a] \notin {NoWorker, w}

\* the database's deadlock detector aborts a transaction of a wait cycle; the
\* creation reports it as its generic error, the callback does not catch it
DeadlockAbort(w) ==
    /\ Scheduled
    /\ \E a \in AnimalIds :
          /\ Waiting(w, a)
          /\ \E b \in AnimalIds : Waiting(lock[a], b) /\ lock[b] = w
    /\ RolledBack(w, IF req[w].kind = "create" THEN Surfaced("deadlock") ELSE "error")

\* --------------------------------------------------------------- listing edit
\* AnimalViewSet.queryset: what the listing endpoint can retrieve and edit
Listed(row) == row.exists /\ ~row.is_sold /\ row.quantity > 0

\* PUT/PATCH /animals/{id}/ up to the save: IsFarmerOrReadOnly, then get_object
\* (history, in the request's order field: how many orders were committed when
\* the listing was read)
EditBegin(w, u, a, q) ==
    /\ Scheduled
    /\ Dispatch(w)
    /\ IsFarmer(u)
    /\ LET r == [IdleReq EXCEPT !.kind = "edit", !.user = u, !.animal = a, !.newQty = q,
                                !.order = Len(orders)]
       IN req' = [req EXCEPT ![w] =
            IF ~Listed(animals[a])
            THEN [r EXCEPT !.pc = "done", !.outcome = "not_found"]
            ELSE [r EXCEPT !.pc = "edit_save", !.snap = [NoWrites EXCEPT ![a] = animals[a]]]]
    /\ UNCHANGED <<animals, nextAnimalId, initQty, orders, lock, orderLock>>

\* the row serializer.save() writes: every field of the instance get_object
\* read, with the submitted quantity; is_sold is read-only
Edited(row, q) == [row EXCEPT !.quantity = IF q = Keep THEN row.quantity ELSE q]

\* ModelSerializer.update: instance.save(), an UPDATE of the whole row, which
\* waits for the row lock
EditSave(w) ==
    /\ Scheduled
    /\ req[w].kind = "edit" /\ req[w].pc = "edit_save"
    /\ lock[req[w].animal] = NoWorker
    /\ animals' = [animals EXCEPT ![req[w].animal] =
                      Edited(req[w].snap[req[w].animal], req[w].newQty)]
    /\ initQty' = [initQty EXCEPT ![req[w].animal] = animals'[req[w].animal].quantity]
    /\ req' = [req EXCEPT ![w] = Response(w, "edited")]
    /\ UNCHANGED <<nextAnimalId, orders, lock, orderLock>>

\* --------------------------------------------------------- payment initiation
\* the order is looked up by id alone
AnyOrder(u, o) == Exists(o)

\* Order.objects.get(id=order_id, buyer=request.user)
OwnOrder(u, o) == Exists(o) /\ orders[o].buyer = u

RECURSIVE JoinedLen(_, _)
\* len(", ".join(item_names)) for the names of the listings of `items`
JoinedLen(items, names) ==
    IF items = <<>> THEN 0
    ELSE names[Head(items).animal]
         + (IF Tail(items) = <<>> THEN 0 ELSE SeparatorLen + JoinedLen(Tail(items), names))

\* the length of transaction_desc after: if len > 90: desc = desc[:90] + "..."
Truncated(n) == IF n > DescLimit THEN DescLimit + EllipsisLen ELSE n

\* the reads take the row lock of every listing of the order
PayLocksItems(w, o) ==
    [a \in AnimalIds |->
        IF \E i \in DOMAIN orders[o].items : orders[o].items[i].animal = a
        THEN w ELSE lock[a]]

\* the row locks after MakePaymentView.post has read the order and its items:
\* plain reads outside any transaction lock nothing
PayLocks(w, o) == lock

\* POST /make-payment/ up to the call of the provider (names: the length of
\* each listing's name when the items are read)
PayBegin(w, u, o, phone, names) ==
    /\ Ready
    /\ Dispatch(w)
    /\ LET r == [IdleReq EXCEPT !.kind = "pay", !.user = u, !.order = o]
       IN IF ~OwnOrder(u, o)
          THEN /\ req' = [req EXCEPT ![w] = [r EXCEPT !.pc = "done", !.outcome = "not_found"]]
               /\ UNCHANGED <<lock, pushed>>
          ELSE IF ~phone
          THEN /\ req' = [req EXCEPT ![w] = [r EXCEPT !.pc = "done", !.outcome = "no_phone"]]
               /\ UNCHANGED <<lock, pushed>>
          ELSE /\ req' = [req EXCEPT ![w] =
                    [r EXCEPT !.pc = "push",
                              !.desc = Truncated(JoinedLen(orders[o].items, names))]]
               /\ lock' = PayLocks(w, o)
               /\ pushed' = pushed \cup {o}
    /\ UNCHANGED <<animals, nextAnimalId, initQty, orders, orderLock, keepResponses>>

\* what mpesa_api.initiate_stk_push can return: the provider's answer, the
\* provider's answer carrying an errorCode, or its own error dictionary
ProviderResults == {"accepted", "errorCode", "error"}

\* the provider call returns: 400 when the answer carries an errorCode, else
\* the answer is passed on with 200
PayEnd(w, result) ==
    /\ Ready
    /\ req[w].kind = "pay" /\ req[w].pc = "push"
    /\ req' = [req EXCEPT ![w] =
          Response(w, IF result = "errorCode" THEN "bad_request" ELSE result)]
    /\ UNCHANGED <<animals, nextAnimalId, initQty, orders, lock, orderLock, keepResponses,
                   pushed>>

\* -------------------------------------------------------------- status update
\* the order state machine of the specification: the update endpoint's moves
Transitions ==
    {<<"PENDING", "CONFIRMED">>, <<"PENDING", "REJECTED">>,
     <<"CONFIRMED", "REJECTED">>, <<"PAID", "DELIVERED">>}

\* IsOrderFarmerOrBuyerOrAdmin.has_object_permission (no staff user is modelled)
MayAccess(u, order) ==
    \/ order.buyer = u
    \/ /\ u \in Farmers
       /\ \E i \in DOMAIN order.items : animals[order.items[i].animal].farmer = u

\* PUT/PATCH /orders/{id}/ with OrderStatusUpdateSerializer
UpdateStatus(u, o, s) ==
    /\ Scheduled
    /\ Exists(o)
    /\ MayAccess(u, orders[o])
    /\ orderLock[o] = NoWorker
    /\ <<orders[o].status, s>> \in Transitions
    /\ orders' = [orders EXCEPT ![o].status = s]
    /\ UNCHANGED <<animals, nextAnimalId, initQty, lock, orderLock, req>>

\* ------------------------------------------------------------- specifications
\* the response leaves the worker
Respond(w) ==
    /\ req[w].pc = "done"
    /\ req' = [req EXCEPT ![w] = IdleReq]
    /\ UNCHANGED <<animals, nextAnimalId, initQty, orders, lock, orderLock, keepResponses,
                   pushed>>

Init ==
    /\ animals = [a \in AnimalIds |-> NoAnimal]
    /\ nextAnimalId = 1
    /\ initQty = [a \in AnimalIds |-> 0]
    /\ orders = <<>>
    /\ lock = [a \in AnimalIds |-> NoWorker]
    /\ orderLock = [o \in OrderIds |-> NoWorker]
    /\ req = [w \in Workers |-> IdleReq]
    /\ keepResponses = FALSE
    /\ pushed = {}

\* listings and order creation only, on carts of at most one line
NextListings ==
    \/ \E w \in Workers : Respond(w)
    \/ \E u \in Users, q \in 0..MaxQty : AnimalCreate(u, q)
    \/ \E w \in Workers, u \in Users, cart \in ShortCarts : BeginCreate(w, u, cart)
    \/ \E w \in Workers : LockItem(w)
    \/ \E w \in Workers, u \in Users, a \in AnimalIds, q \in (0..MaxQty) \cup {Keep} :
          EditBegin(w, u, a, q)
    \/ \E w \in Workers : EditSave(w)

SpecListings == Init /\ [][NextListings]_vars

\* the system with no listing edits, on carts of up to two lines
NextNoEdit ==
    \/ \E w \in Workers : Respond(w)
    \/ \E u \in Users, q \in 0..MaxQty : AnimalCreate(u, q)
    \/ \E w \in Workers, u \in Users, cart \in Carts : BeginCreate(w, u, cart)
    \/ \E w \in Workers : LockItem(w)
    \/ \E w \in Workers, o \in OrderIds : CallbackBegin(w, o)
    \/ \E w \in Workers : CallbackItem(w)
    \/ \E w \in Workers : DeadlockAbort(w)
    \/ \E u \in Users, o \in OrderIds, s \in OrderStatus : UpdateStatus(u, o, s)

SpecNoEdit == Init /\ [][NextNoEdit]_vars

\* orders and their payment: listings created with stock, creation on carts of
\* one line of at least one unit, status update, payment initiation and payment
\* callback
NextPayments ==
    \/ \E w \in Workers : Respond(w)
    \/ \E u \in Users, q \in 1..MaxQty : AnimalCreate(u, q)
    \/ \E w \in Workers, u \in Users, cart \in UnitCarts : BeginCreate(w, u, cart)
    \/ \E w \in Workers : LockItem(w)
    \/ \E u \in Users, o \in OrderIds, s \in OrderStatus : UpdateStatus(u, o, s)
    \/ \E w \in Workers, u \in Users, o \in OrderIds, phone \in BOOLEAN,
          names \in [AnimalIds -> NameLens] : PayBegin(w, u, o, phone, names)
    \/ \E w \in Workers, result \in ProviderResults : PayEnd(w, result)
    \/ \E w \in Workers, o \in OrderIds : CallbackBegin(w, o)
    \/ \E w \in Workers : CallbackItem(w)

SpecPayments == Init /\ [][NextPayments]_vars

\* two calls served side by side, each worker holding its response: listings
\* and order creation on carts of at most one line
InitTwoCalls ==
    /\ animals = [a \in AnimalIds |-> NoAnimal]
    /\ nextAnimalId = 1
    /\ initQty = [a \in AnimalIds |-> 0]
    /\ orders = <<>>
    /\ lock = [a \in AnimalIds |-> NoWorker]
    /\ orderLock = [o \in OrderIds |-> NoWorker]
    /\ req = [w \in Workers |-> IdleReq]
    /\ keepResponses = TRUE
    /\ pushed = {}

NextTwoCalls ==
    \/ \E u \in Users, q \in 0..MaxQty : AnimalCreate(u, q)
    \/ \E w \in Workers, u \in Users, cart \in ShortCarts : BeginCreate(w, u, cart)
    \/ \E w \in Workers : LockItem(w)

SpecTwoCalls == InitTwoCalls /\ [][NextTwoCalls]_vars

\* ===================================================================== claims
\* worker w's creation request ends in this step
CreateFinishes(w) ==
    /\ req[w].pc # "done"
    /\ req'[w].pc = "done"
    /\ req'[w].kind = "create"

\* worker w's response to a creation with the one line (a, n)
SingleLine(w, a, n) ==
    /\ req[w].kind = "create"
    /\ req[w].pc = "done"
    /\ req[w].cart = <<[animal |-> a, quantity |-> n]>>

\* C1: with no listing edits, under every interleaving of creations (and
\* callbacks), no listing's quantity is negative and the units in the committed
\* order lines of a listing never exceed the quantity it was created with
C1_NoOversell ==
    \A a \in AnimalIds :
        /\ animals[a].quantity >= 0
        /\ CommittedQty(a) <= initQty[a]

\* C1 witness: a creation that passed the unlocked check on what validation
\* read loses the race: under the lock the listing, partly sold by a committed
\* order, no longer holds what it asks for
C1_Witness ==
    \E w \in Workers, a \in AnimalIds, n \in 1..MaxQty :
        /\ SingleLine(w, a, n)
        /\ req[w].outcome = "failed"
        /\ ItemsAccepted(req[w].cart, req[w].snap)
        /\ n > animals[a].quantity
        /\ CommittedQty(a) > 0
        /\ CommittedQty(a) + n > initQty[a]

\* C2: a creation that does not succeed changes no committed row at any of its
\* steps: no Order, no OrderItem, no listing quantity or sold flag
C2_AllOrNothing ==
    [][\A w \in Workers :
          (req'[w] # req[w] /\ req'[w].kind = "create" /\ req'[w].outcome # "created")
              => (animals' = animals /\ orders' = orders)]_vars

\* C2 witness: a two-line creation fails at its second line after its first
\* line was accepted and decremented under the lock
C2_Witness ==
    \E w \in Workers :
        /\ req[w].kind = "create" /\ req[w].pc = "done" /\ req[w].outcome = "failed"
        /\ Len(req[w].cart) = 2 /\ req[w].idx = 2
        /\ ItemsAccepted(req[w].cart, req[w].snap)
        /\ req[w].cart[1].quantity > 0
        /\ InStock(animals[req[w].cart[1].animal], req[w].cart[1].quantity)
        /\ ~InStock(animals[req[w].cart[2].animal], req[w].cart[2].quantity)

\* C3: each listing's quantity is the quantity it was created with minus the
\* units in the committed order lines that reference it
C3_Ledger ==
    \A a \in AnimalIds :
        animals[a].exists => animals[a].quantity = initQty[a] - CommittedQty(a)

\* C4: no step of a payment callback changes any listing's quantity or sold flag
C4_DeductedOnce ==
    [][\A w \in Workers :
          (req'[w] # req[w] /\ req'[w].kind = "callback") => animals' = animals]_vars

\* C5: two creations served side by side, each asking for the n >= 1 units that
\* the listing holds when each is validated: exactly one commits, the other
\* fails, and the listing ends with quantity 0 and sold
C5_OneWinner ==
    \A a \in AnimalIds, n \in 1..MaxQty :
        ( /\ \A w \in Workers :
                /\ SingleLine(w, a, n)
                /\ req[w].user \in Buyers
                /\ req[w].snap[a].exists
                /\ req[w].snap[a].quantity = n )
        => /\ \E w, v \in Workers :
                req[w].outcome = "created" /\ req[v].outcome = "failed"
           /\ animals[a].quantity = 0
           /\ animals[a].is_sold

\* C5 witness: both calls are answered, one with the order it created
C5_Witness ==
    \E a \in AnimalIds, n \in 1..MaxQty :
        /\ \A w \in Workers :
              SingleLine(w, a, n) /\ req[w].snap[a].exists /\ req[w].snap[a].quantity = n
        /\ \E w \in Workers : req[w].outcome = "created"

\* C6: a listing's sold flag is true exactly when its quantity is 0
C6_SoldIffEmpty ==
    \A a \in AnimalIds :
        animals[a].exists => (animals[a].is_sold <=> animals[a].quantity = 0)

\* worker w's listing edit writes in this step
EditSaves(w) ==
    /\ req[w].kind = "edit"
    /\ req[w].pc = "edit_save"
    /\ req'[w].pc = "done"

\* C7: a listing edit that interleaves with a creation on the same listing
\* never overwrites the creation's committed decrement: an edit that submits
\* no quantity, written after an order for the listing was committed since the
\* edit read it, leaves the quantity as the creation left it
C7_EditKeepsDecrement ==
    [][\A w \in Workers :
          ( /\ EditSaves(w)
            /\ req[w].newQty = Keep
            /\ \E o \in (req[w].order + 1)..Len(orders) :
                  SumLines(orders[o].items, req[w].animal) > 0 )
          => animals'[req[w].animal].quantity = animals[req[w].animal].quantity]_vars

\* C8: a creation with a line that asks for more units than its listing holds
\* when the creation ends does not succeed, and leaves every listing as it was
C8_OverAskFails ==
    [][\A w \in Workers :
          ( /\ CreateFinishes(w)
            /\ \E i \in DOMAIN req'[w].cart :
                  req'[w].cart[i].quantity > animals[req'[w].cart[i].animal].quantity )
          => (req'[w].outcome # "created" /\ animals' = animals)]_vars

\* C8 witness: a creation asking for more than the listing holds has failed,
\* under the lock: what validation had read still covered the line
C8_Witness ==
    \E w \in Workers, a \in AnimalIds, n \in 1..MaxQty :
        /\ SingleLine(w, a, n)
        /\ req[w].outcome = "failed"
        /\ ItemsAccepted(req[w].cart, req[w].snap)
        /\ animals[a].exists
        /\ n > animals[a].quantity

\* C9: the step that commits a one-line creation of r units of a listing holding
\* q >= r units leaves that listing with q - r units, sold exactly when that is
\* 0, every other listing and order as it was, and one new order, PENDING, of
\* the caller, with that one line
C9_SingleLineCommit ==
    [][\A w \in Workers :
          (CreateFinishes(w) /\ req'[w].outcome = "created" /\ Len(req'[w].cart) = 1)
          => LET a == req'[w].cart[1].animal
                 r == req'[w].cart[1].quantity
                 q == animals[a].quantity
             IN /\ r <= q
                /\ animals'[a].quantity = q - r
                /\ animals'[a].is_sold <=> (q - r = 0)
                /\ \A b \in AnimalIds \ {a} : animals'[b] = animals[b]
                /\ Len(orders') = Len(orders) + 1
                /\ \A o \in DOMAIN orders : orders'[o] = orders[o]
                /\ orders'[Len(orders')] =
                      [buyer |-> req'[w].user, status |-> "PENDING",
                       items |-> <<[animal |-> a, quantity |-> r]>>]]_vars

\* C9 witness: a one-line creation has committed, both leaving stock and
\* selling out
C9_Witness ==
    \E w \in Workers, a \in AnimalIds, n \in 1..MaxQty :
        /\ SingleLine(w, a, n)
        /\ req[w].outcome = "created"
        /\ animals[a].quantity > 0
        /\ \E b \in AnimalIds : animals[b].is_sold

\* C10: a payment callback that reads a status other than CONFIRMED (or finds
\* no order) changes no order and no listing at any of its steps
C10_CallbackIgnored ==
    [][\A w \in Workers :
          (req'[w] # req[w] /\ req'[w].kind = "callback" /\ req'[w].seen # "CONFIRMED")
          => (orders' = orders /\ animals' = animals)]_vars

\* C10 witness: a callback for a REJECTED order, whose line the listing could
\* still cover, is answered
C10_Witness ==
    \E w \in Workers :
        /\ req[w].kind = "callback" /\ req[w].pc = "done"
        /\ req[w].outcome = "ignored"
        /\ req[w].seen = "REJECTED"
        /\ \E i \in DOMAIN orders[req[w].order].items :
              LET line == orders[req[w].order].items[i]
              IN line.quantity > 0 /\ CanDeduct(animals[line.animal], line.quantity)

\* worker w's payment callback takes a step
CallbackSteps(w) ==
    /\ req'[w] # req[w]
    /\ req'[w].kind = "callback"

\* C11: the payment callback is idempotent: a callback step processes the
\* payment (reports it, or changes any order or listing) only when the order is
\* CONFIRMED in the database at that step, and the step leaves exactly that
\* order PAID; a further delivery, after or alongside the first, finds the
\* order PAID and changes nothing
C11_PaidOnce ==
    [][\A w \in Workers :
          ( /\ CallbackSteps(w)
            /\ req'[w].outcome = "paid" \/ orders' # orders \/ animals' # animals )
          => /\ Exists(req'[w].order)
             /\ orders[req'[w].order].status = "CONFIRMED"
             /\ orders' = [orders EXCEPT ![req'[w].order].status = "PAID"]]_vars

\* C11 witness: a second delivery for an order with lines is answered: it found
\* the order PAID
C11_Witness ==
    \E w \in Workers :
        /\ req[w].kind = "callback" /\ req[w].pc = "done"
        /\ req[w].outcome = "ignored"
        /\ req[w].seen = "PAID"
        /\ orders[req[w].order].status = "PAID"
        /\ orders[req[w].order].items # <<>>

\* the moves of the order state machine
StatusMoves ==
    {<<"PENDING", "CONFIRMED">>, <<"CONFIRMED", "PAID">>, <<"PAID", "DELIVERED">>,
     <<"PENDING", "REJECTED">>, <<"CONFIRMED", "REJECTED">>}

OwnListing(r) ==
    \E i \in DOMAIN r.cart : animals[r.cart[i].animal].farmer = r.user

CartValid(cart) == \A i \in DOMAIN cart : animals[cart[i].animal].exists

C16_NoDeadlock ==
    ~ \E w, v \in Workers, a, b \in AnimalIds :
          /\ w # v
          /\ req[w].kind = "create" /\ req[v].kind = "create"
          /\ Waiting(w, a) /\ lock[a] = v
          /\ Waiting(v, b) /\ lock[b] = w

\* C17: a creation by a buyer of one line that asks for more units than its
\* listing, in stock, holds is answered with the insufficient-stock reason
C17_SpecificReason ==
    [][\A w \in Workers :
          ( /\ CreateFinishes(w)
            /\ req'[w].user \in Buyers
            /\ Len(req'[w].cart) = 1
            /\ animals[req'[w].cart[1].animal].exists
            /\ animals[req'[w].cart[1].animal].quantity > 0
            /\ req'[w].cart[1].quantity > animals[req'[w].cart[1].animal].quantity )
          => req'[w].outcome = "insufficient_stock"]_vars

\* the lines name no listing twice
NoRepeat(items) ==
    \A i, j \in DOMAIN items : i # j => items[i].animal # items[j].animal

\* C18: every committed order has at most one line per listing, and a creation
\* whose cart names a listing twice does not succeed and changes no listing
\* and no order
C18_OneLinePerListing ==
    [][/\ \A o \in DOMAIN orders' : NoRepeat(orders'[o].items)
       /\ \A w \in Workers :
             (CreateFinishes(w) /\ ~NoRepeat(req'[w].cart))
             => /\ req'[w].outcome # "created"
                /\ animals' = animals
                /\ orders' = orders]_vars

\* C18 witness: a buyer's cart with two lines of one unit each of the same
\* listing, which holds two units, fails
C18_Witness ==
    \E w \in Workers, a \in AnimalIds :
        /\ req[w].kind = "create" /\ req[w].pc = "done"
        /\ req[w].user \in Buyers
        /\ req[w].cart = <<[animal |-> a, quantity |-> 1], [animal |-> a, quantity |-> 1]>>
        /\ req[w].outcome = "failed"
        /\ animals[a].quantity = 2
        /\ ~animals[a].is_sold

\* C19: every committed order line has quantity at least 1
C19_PositiveLines ==
    \A o \in DOMAIN orders : \A i \in DOMAIN orders[o].items :
        orders[o].items[i].quantity >= 1

\* the answer to a buyer's one-line creation of n units served alone on `row`
AloneOutcome(row, n) ==
    IF row.is_sold \/ row.quantity = 0 \/ n > row.quantity THEN "failed" ELSE "created"

\* the listing row such a creation leaves
AloneRow(row, n) ==
    IF AloneOutcome(row, n) = "created"
    THEN [row EXCEPT !.quantity = row.quantity - n,
                     !.is_sold = (row.quantity - n = 0)]
    ELSE row

\* C20: two buyers' one-line creations on different listings, served side by
\* side, end as when served one after the other in either order: each gets the
\* answer, and leaves its listing, as if served alone on the listing it found,
\* and the committed orders are exactly those of the creations that succeeded
C20_DisjointCommute ==
    \A a, b \in AnimalIds, n, m \in 0..MaxQty :
        ( /\ a # b
          /\ SingleLine("w1", a, n) /\ SingleLine("w2", b, m)
          /\ \A w \in Workers : req[w].user \in Buyers /\ req[w].outcome # "invalid" )
        => /\ req["w1"].outcome = AloneOutcome(req["w1"].snap[a], n)
           /\ req["w2"].outcome = AloneOutcome(req["w2"].snap[b], m)
           /\ animals[a] = AloneRow(req["w1"].snap[a], n)
           /\ animals[b] = AloneRow(req["w2"].snap[b], m)
           /\ Len(orders) = Cardinality({w \in Workers : req[w].outcome = "created"})
           /\ \A w \in Workers :
                 req[w].outcome = "created"
                 => /\ Exists(req[w].order)
                    /\ orders[req[w].order] =
                          [buyer |-> req[w].user, status |-> "PENDING", items |-> req[w].cart]
           /\ (\A w \in Workers : req[w].outcome = "created")
                 => req["w1"].order # req["w2"].order

\* C20 witness: the two creations overlapped and both succeeded: the one that
\* began second committed first, and one of them sold its listing out
C20_Witness ==
    \E a, b \in AnimalIds, n, m \in 1..MaxQty :
        /\ a # b
        /\ SingleLine("w1", a, n) /\ SingleLine("w2", b, m)
        /\ req["w1"].outcome = "created" /\ req["w2"].outcome = "created"
        /\ req["w2"].order = 1 /\ req["w1"].order = 2
        /\ animals[a].is_sold /\ ~animals[b].is_sold

\* C21: while a request is calling the payment provider it is a payment
\* initiation and holds no row lock, of a listing or of an order
C21_PushUnlocked ==
    \A w \in Workers :
        req[w].pc = "push"
        => /\ req[w].kind = "pay"
           /\ \A a \in AnimalIds : lock[a] # w
           /\ \A o \in OrderIds : orderLock[o] # w

\* C21 witness: the provider is being called for an order whose row a payment
\* callback holds locked at that moment
C21_Witness ==
    \E w, v \in Workers :
        /\ req[w].kind = "pay" /\ req[w].pc = "push"
        /\ req[v].kind = "callback" /\ req[v].pc = "cb_items"
        /\ orderLock[req[w].order] = v

\* C22: the description handed to the payment provider is never longer than
\* 90 characters
C22_DescWithinLimit ==
    \A w \in Workers : req[w].pc = "push" => req[w].desc <= DescLimit

\* C23: every order line a creation has inserted is of a listing whose row
\* lock the creation holds
C23_LockBeforeLine ==
    \A w \in Workers : \A i \in DOMAIN InsertedItems(w) :
        lock[InsertedItems(w)[i].animal] = w

\* worker w's payment initiation takes a step
PaySteps(w) ==
    /\ req'[w] # req[w]
    /\ req'[w].kind = "pay"

\* C24: no step of a payment initiation, whatever its outcome, changes any
\* order or listing, and the provider is called only for an existing order
\* whose buyer is the caller
C24_PayChangesNothing ==
    [][\A w \in Workers :
          PaySteps(w)
          => /\ orders' = orders
             /\ animals' = animals
             /\ req'[w].pc = "push"
                   => /\ req'[w].order \in DOMAIN orders
                      /\ orders[req'[w].order].buyer = req'[w].user]_vars

\* C24 witness: the provider refused the push for a CONFIRMED order with lines
C24_Witness ==
    \E w \in Workers :
        /\ req[w].kind = "pay" /\ req[w].pc = "done"
        /\ req[w].outcome = "bad_request"
        /\ orders[req[w].order].status = "CONFIRMED"
        /\ orders[req[w].order].items # <<>>

\* C25: an order becomes PAID only if the provider was asked before, by the
\* order's buyer, to push a payment for it
C25_PaidAfterPush ==
    [][\A o \in DOMAIN orders :
          (orders[o].status # "PAID" /\ orders'[o].status = "PAID") => o \in pushed]_vars

\* C26: once a listing is sold, or holds no unit, no step sets its sold flag
\* back to false or raises its quantity
C26_SoldStays ==
    [][\A a \in AnimalIds :
          (animals[a].exists /\ (animals[a].is_sold \/ animals[a].quantity = 0))
          => /\ animals[a].is_sold => animals'[a].is_sold
             /\ animals'[a].quantity <= animals[a].quantity]_vars
====
